---- MODULE Spec2Model ----
(***************************************************************************)
(* Model of NodeClassifier/utils/featurizer.py: the address and session    *)
(* classifiers (is_private, is_external, is_protocol, extract_macs,        *)
(* extract_protocol) and the feature aggregator (get_source,               *)
(* extract_features).                                                      *)
(*                                                                         *)
(* Representation of Python values:                                        *)
(*   - a str is a sequence of one-character strings, so that len, slicing, *)
(*     split and int are computed on the characters;                       *)
(*   - a packet header (a hex str) is a sequence of bytes, each byte the   *)
(*     two hex characters that encode it: the code only slices a packet at *)
(*     even offsets and in even lengths ([0:12], [12:24], [i:i+2],         *)
(*     [46:48]), so hex offset 2k is byte k;                               *)
(*   - a MAC string 'aa:bb:..' is the sequence of its colon-separated      *)
(*     groups;                                                             *)
(*   - a value whose Python type matters (None, str, tuple, list) is a     *)
(*     record [t |-> type, v |-> contents];                                *)
(*   - a dict is the sequence of its keys in insertion order and a         *)
(*     function from keys to values.                                       *)
(***************************************************************************)
EXTENDS Integers, Sequences, FiniteSets, TLC

VARIABLES
    address,        \* argument of is_private
    session_dict,   \* argument of get_source / extract_features (items in iteration order)
    capture_source, \* argument capture_source of extract_features
    max_port,       \* argument max_port of extract_features
    pc,             \* "start" before the call, then the function that returned
    ret,            \* what the call returned (or the exception it raised)
    locals          \* extract_features' counters when the loop ends (line 251)

vars == <<address, session_dict, capture_source, max_port, pc, ret, locals>>

----------------------------------------------------------------------------
(* Bounds of the checked input space *)

MaxOctet == 255
MaxSessions == 2
MaxPort == 1

----------------------------------------------------------------------------
(* Python str primitives *)

Min(a, b) == IF a < b THEN a ELSE b

\* s[i:j] for 0 <= i <= j: slicing truncates at the end of s, it never raises
Slice(s, i, j) == SubSeq(s, i + 1, Min(j, Len(s)))

DigitChars == <<"0", "1", "2", "3", "4", "5", "6", "7", "8", "9">>

IsDigit(c) == \E k \in 1..10 : DigitChars[k] = c

DigitVal(c) == (CHOOSE k \in 1..10 : DigitChars[k] = c) - 1

\* str(n) for n >= 0
RECURSIVE ToStr(_)
ToStr(n) ==
    IF n < 10 THEN <<DigitChars[n + 1]>>
    ELSE ToStr(n \div 10) \o <<DigitChars[(n % 10) + 1]>>

RECURSIVE DecimalValue(_)
DecimalValue(s) ==
    IF s = <<>> THEN 0
    ELSE 10 * DecimalValue(SubSeq(s, 1, Len(s) - 1)) + DigitVal(s[Len(s)])

\* int(s) on a str of characters: ValueError unless s is a non-empty digit string
int(s) ==
    IF s # <<>> /\ \A k \in 1..Len(s) : IsDigit(s[k])
    THEN [exc |-> "none", val |-> DecimalValue(s)]
    ELSE [exc |-> "ValueError", val |-> 0]

\* s.split(sep): the parts between the separators, always at least one part
RECURSIVE SplitFrom(_, _, _, _)
SplitFrom(s, sep, k, cur) ==
    IF k > Len(s) THEN <<cur>>
    ELSE IF s[k] = sep THEN <<cur>> \o SplitFrom(s, sep, k + 1, <<>>)
    ELSE SplitFrom(s, sep, k + 1, Append(cur, s[k]))

split(s, sep) == SplitFrom(s, sep, 1, <<>>)

\* sep.join(parts)
RECURSIVE join(_, _)
join(sep, parts) ==
    IF parts = <<>> THEN <<>>
    ELSE IF Len(parts) = 1 THEN parts[1]
    ELSE parts[1] \o <<sep>> \o join(sep, Tail(parts))

PyStr(s) == [t |-> "str", v |-> s]
PyList(l) == [t |-> "list", v |-> l]

----------------------------------------------------------------------------
(* is_private *)

S10 == <<"1", "0">>
S192 == <<"1", "9", "2">>
S168 == <<"1", "6", "8">>
S172 == <<"1", "7", "2">>

Returned(b) == [exc |-> "none", val |-> b]
Raised(e) == [exc |-> e, val |-> FALSE]

\* the range test with its upper end left out
MutInRange172(n) == 16 <= n /\ n < 31

\* the 16 <= int(pairs[1]) <= 31 test of line 44
InRange172(n) == 16 <= n /\ n <= 31

\* lines 41-46, once pairs is bound
PrivateOfPairs(pairs) ==
    LET p10 == pairs[1] = S10
    IN  IF pairs[1] = S192 /\ Len(pairs) < 2 THEN Raised("IndexError")
        ELSE LET p192 == pairs[1] = S192 /\ pairs[2] = S168
             IN  IF pairs[1] = S172
                 THEN IF Len(pairs) < 2 THEN Raised("IndexError")
                      ELSE LET n == int(pairs[2])
                           IN  IF n.exc # "none" THEN Raised(n.exc)
                               ELSE Returned(p10 \/ p192 \/ InRange172(n.val))
                 ELSE Returned(p10 \/ p192)

is_private(a) ==
    IF Len(a.v) > 4
    THEN IF a.t = "str" THEN PrivateOfPairs(split(a.v, "."))
         ELSE Raised("AttributeError")
    ELSE IF Len(a.v) = 4
    THEN IF a.t = "str"
         THEN PrivateOfPairs([k \in 1..4 |-> <<a.v[k]>>])
         ELSE PrivateOfPairs(a.v)
    ELSE Raised("UnboundLocalError")

----------------------------------------------------------------------------
(* Inputs of is_private *)

Octets == 0..MaxOctet

DottedQuad(a, b, c, d) == join(".", <<ToStr(a), ToStr(b), ToStr(c), ToStr(d)>>)

OctetList(a, b, c, d) == <<ToStr(a), ToStr(b), ToStr(c), ToStr(d)>>

\* the octets the code never looks at
TailOctets == {<<0, 1>>}

QuadInputs == {[a |-> a, b |-> b, c |-> cd[1], d |-> cd[2]] : a \in Octets, b \in Octets, cd \in TailOctets}

MalformedStrings ==
    { <<>>,
      <<"1">>, <<"1", "0">>, <<"1", "9", "2">>, <<"1", ".", "2">>,
      <<"1", "0", ".">>, <<"1", "9", "2", ".">>,
      <<"1", "0", "a", "b", "c">>, <<"1", "7", "2", "1", "6">>,
      <<"1", "7", "2", ".", "a", "b", ".", "0", ".", "1">>,
      <<"1", "7", "2", ".", ".", "0", ".", "1">>,
      <<"1", "7", "2", ".">> }

InitPriv ==
    /\ \/ \E q \in QuadInputs : address = [kind |-> "quad", q |-> q, py |-> PyStr(DottedQuad(q.a, q.b, q.c, q.d))]
       \/ \E q \in QuadInputs : address = [kind |-> "quad", q |-> q, py |-> PyList(OctetList(q.a, q.b, q.c, q.d))]
       \/ \E s \in MalformedStrings : address = [kind |-> "malformed", q |-> [a |-> 0, b |-> 0, c |-> 0, d |-> 0], py |-> PyStr(s)]
    /\ session_dict = <<>>
    /\ capture_source = [t |-> "None", v |-> <<>>]
    /\ max_port = 0
    /\ pc = "start"
    /\ ret = Returned(FALSE)
    /\ locals = <<>>

CallIsPrivate ==
    /\ pc = "start"
    /\ pc' = "is_private"
    /\ ret' = is_private(address.py)
    /\ UNCHANGED <<address, session_dict, capture_source, max_port, locals>>

NextPriv == CallIsPrivate

SpecPriv == InitPriv /\ [][NextPriv]_vars

----------------------------------------------------------------------------
(* Packets and the classifiers that read them *)

\* extract_macs: hex [12:24] is bytes 6..11 (source), hex [0:12] is bytes 0..5
\* (destination); each is re-joined with ':' between the bytes
extract_macs(packet) ==
    [source_mac |-> Slice(packet, 6, 12), destination_mac |-> Slice(packet, 0, 6)]

\* extract_protocol: session[0][1][46:48], hex [46:48] is byte 23
extract_protocol(session) == Slice(session[1][2], 23, 24)

is_protocol(session, protocol) == extract_protocol(session) = protocol

TCP == <<"06">>
UDP == <<"11">>
ICMP == <<"01">>

\* is_external as the code computes it: True when the three-character
\* prefixes are equal
is_external(address_1, address_2) == Slice(address_1, 0, 3) = Slice(address_2, 0, 3)

\* True counts as 1 when added to an int
BoolInt(b) == IF b THEN 1 ELSE 0

----------------------------------------------------------------------------
(* dict with insertion-ordered keys (defaultdict(int)) *)

EmptyDict == [keys |-> <<>>, val |-> <<>>]

Range(s) == {s[k] : k \in DOMAIN s}

KeyIndex(d, k) == CHOOSE i \in DOMAIN d.keys : d.keys[i] = k

DictGet(d, k) == IF k \in Range(d.keys) THEN d.val[KeyIndex(d, k)] ELSE 0

\* d[k] += 1
DictIncr(d, k) ==
    IF k \in Range(d.keys)
    THEN [d EXCEPT !.val[KeyIndex(d, k)] = @ + 1]
    ELSE [keys |-> Append(d.keys, k), val |-> Append(d.val, 1)]

----------------------------------------------------------------------------
(* get_source *)

NoneValue == [t |-> "None", v |-> <<>>]

\* the tuple (None, 0, 0) of line 98
EmptyReturn == [t |-> "tuple", v |-> <<"None", "0", "0">>]

ZeroMac == <<"00", "00", "00", "00", "00", "00">>

\* line 83
BothPrivate(incoming_address, outgoing_address) ==
    is_private(PyStr(incoming_address)).val /\ is_private(PyStr(outgoing_address)).val

\* lines 74-94: all_macs after the sessions from index i on are counted
RECURSIVE CountMacs(_, _, _)
CountMacs(sessions, i, all_macs) ==
    IF i > Len(sessions) THEN all_macs
    ELSE LET key == sessions[i].key
             incoming_address == split(key[2], ":")[1]
             outgoing_address == split(key[1], ":")[1]
             macs == extract_macs(sessions[i].session[1][2])
         IN  IF BothPrivate(incoming_address, outgoing_address)
             THEN CountMacs(sessions, i + 1,
                            DictIncr(DictIncr(all_macs, macs.source_mac), macs.destination_mac))
             ELSE CountMacs(sessions, i + 1, all_macs)

\* an insertion before the elements of equal key: a sort that is not stable
MutInsertPos(sorted, d, x) ==
    Cardinality({j \in DOMAIN sorted : DictGet(d, sorted[j]) > DictGet(d, x)})

\* where x goes in a list sorted in descending order of its key, after every
\* element whose key is not smaller (the sort is stable)
InsertPos(sorted, d, x) ==
    Cardinality({j \in DOMAIN sorted : DictGet(d, sorted[j]) >= DictGet(d, x)})

\* sorted(d.keys(), key=lambda k: d[k], reverse=True)
RECURSIVE SortedDesc(_, _, _)
SortedDesc(d, i, sorted) ==
    IF i > Len(d.keys) THEN sorted
    ELSE LET x == d.keys[i]
             p == InsertPos(sorted, d, x)
         IN  SortedDesc(d, i + 1, SubSeq(sorted, 1, p) \o <<x>> \o SubSeq(sorted, p + 1, Len(sorted)))

get_source(sessions) ==
    LET all_macs == CountMacs(sessions, 1, EmptyDict)
        sorted_sources == SortedDesc(all_macs, 1, <<>>)
    IN  IF Len(sessions) = 0 THEN EmptyReturn
        ELSE IF Len(sorted_sources) > 0 THEN PyStr(sorted_sources[1])
        ELSE PyStr(ZeroMac)

----------------------------------------------------------------------------
(* extract_features *)

Zeros(n) == [k \in 1..n |-> 0]

\* lines 215-224
InitLocals(mp) ==
    [num_source_sess |-> Zeros(mp), num_destination_sess |-> Zeros(mp),
     num_sessions |-> 0, num_external |-> 0,
     num_tcp_sess |-> 0, num_udp_sess |-> 0, num_icmp_sess |-> 0,
     other_ips |-> EmptyDict]

\* the bin set to 1 instead of incremented
MutBumpPort(hist, port, mp) ==
    IF port < mp THEN [hist EXCEPT ![port + 1] = 1] ELSE hist

\* lines 242-245: bump the bin of a port below max_port
BumpPort(hist, port, mp) ==
    IF port < mp THEN [hist EXCEPT ![port + 1] = @ + 1] ELSE hist

\* lines 235-236 and 249-250
RecordPeer(other_ips, addr) ==
    IF is_private(PyStr(addr)).val THEN DictIncr(other_ips, addr) ELSE other_ips

\* the session counted only when its source port has a bin
MutSourceSide(l, item, address_1, port_1, address_2, port_2, mp) ==
    [l EXCEPT
        !.other_ips = RecordPeer(@, address_2),
        !.num_sessions = @ + BoolInt(int(port_1).val < mp),
        !.num_external = @ + BoolInt(is_external(address_1, address_2)),
        !.num_tcp_sess = @ + BoolInt(is_protocol(item.session, TCP)),
        !.num_udp_sess = @ + BoolInt(is_protocol(item.session, UDP)),
        !.num_icmp_sess = @ + BoolInt(is_protocol(item.session, ICMP)),
        !.num_source_sess = BumpPort(@, int(port_1).val, mp),
        !.num_destination_sess = BumpPort(@, int(port_2).val, mp)]

\* lines 234-245: the session's source MAC is the capture source
SourceSide(l, item, address_1, port_1, address_2, port_2, mp) ==
    [l EXCEPT
        !.other_ips = RecordPeer(@, address_2),
        !.num_sessions = @ + 1,
        !.num_external = @ + BoolInt(is_external(address_1, address_2)),
        !.num_tcp_sess = @ + BoolInt(is_protocol(item.session, TCP)),
        !.num_udp_sess = @ + BoolInt(is_protocol(item.session, UDP)),
        !.num_icmp_sess = @ + BoolInt(is_protocol(item.session, ICMP)),
        !.num_source_sess = BumpPort(@, int(port_1).val, mp),
        !.num_destination_sess = BumpPort(@, int(port_2).val, mp)]

\* lines 248-250: the session's destination MAC is the capture source
DestinationSide(l, address_1) == [l EXCEPT !.other_ips = RecordPeer(@, address_1)]

\* lines 225-250: one iteration of the loop
Aggregate(l, item, cs, mp) ==
    LET e1 == split(item.key[1], ":")
        e2 == split(item.key[2], ":")
        macs == extract_macs(item.session[1][2])
        l1 == IF PyStr(macs.source_mac) = cs
              THEN SourceSide(l, item, e1[1], e1[2], e2[1], e2[2], mp)
              ELSE l
    IN  IF PyStr(macs.destination_mac) = cs THEN DestinationSide(l1, e1[1]) ELSE l1

RECURSIVE Loop(_, _, _, _, _)
Loop(sessions, i, l, cs, mp) ==
    IF i > Len(sessions) THEN l
    ELSE Loop(sessions, i + 1, Aggregate(l, sessions[i], cs, mp), cs, mp)

\* a quotient n / d of lines 257-262, kept exact
Quot(n, d) == [num |-> n, den |-> d]

\* the divisor without the guard against zero
MutDivisor(num_sessions) == num_sessions

\* line 256
Divisor(num_sessions) == IF num_sessions = 0 THEN 1 ELSE num_sessions

\* the two port histograms concatenated in the other order
MutFeatureVector(l) ==
    LET d == IF l.num_sessions = 0 THEN 1 ELSE l.num_sessions
        num_port_sess == l.num_destination_sess \o l.num_source_sess
        extra_features == <<l.num_external, l.num_tcp_sess, l.num_udp_sess, l.num_icmp_sess>>
        all == num_port_sess \o extra_features
    IN  [k \in 1..Len(all) |-> [num |-> all[k], den |-> d]]

\* lines 252-264
FeatureVector(l) ==
    LET d == Divisor(l.num_sessions)
        num_port_sess == l.num_source_sess \o l.num_destination_sess
        extra_features == <<l.num_external, l.num_tcp_sess, l.num_udp_sess, l.num_icmp_sess>>
        all == num_port_sess \o extra_features
    IN  [k \in 1..Len(all) |-> Quot(all[k], d)]

\* lines 211-212
ResolveSource(sessions, cs) == IF cs.t = "None" THEN get_source(sessions) ELSE cs

\* lines 215-250: the counters when the loop ends
extract_locals(sessions, cs, mp) ==
    Loop(sessions, 1, InitLocals(mp), ResolveSource(sessions, cs), mp)

\* lines 252-265: what is returned, from the counters
Returns(l, sessions, cs) ==
    [feature_vector |-> FeatureVector(l),
     capture_source |-> ResolveSource(sessions, cs),
     other_ips |-> l.other_ips.keys]

extract_features(sessions, cs, mp) == Returns(extract_locals(sessions, cs, mp), sessions, cs)

----------------------------------------------------------------------------
(* Inputs of get_source and extract_features *)

MacA == <<"aa", "aa", "aa", "aa", "aa", "aa">>
MacB == <<"bb", "bb", "bb", "bb", "bb", "bb">>
MACs == {MacA, MacB}

Protocols == {TCP, UDP, ICMP, <<"02">>}

Addr10a == <<10, 0, 0, 1>>
Addr10b == <<10, 0, 0, 2>>
AddrPub == <<8, 8, 8, 8>>
Addrs == {Addr10a, Addr10b, AddrPub}

Ports == 0..MaxPort

AddrStr(a) == DottedQuad(a[1], a[2], a[3], a[4])

\* "address:port"
EndPoint(a, p) == AddrStr(a) \o <<":">> \o ToStr(p)

\* an untagged Ethernet + IPv4 header: destination MAC, source MAC, then
\* bytes 12..22, then the protocol number at byte 23
MakePacket(dst, src, proto) == dst \o src \o [k \in 1..11 |-> "00"] \o proto

\* one item of the session mapping, with the fields it was built from
Item(d) ==
    [d |-> d,
     key |-> <<EndPoint(d.a1, d.p1), EndPoint(d.a2, d.p2)>>,
     session |-> << <<0, MakePacket(d.dst, d.src, d.proto)>> >>]

\* sessions that differ in addresses and MACs
AddrSessions ==
    [a1 : Addrs, p1 : {0}, a2 : Addrs, p2 : {0}, src : MACs, dst : MACs, proto : {TCP}]

\* sessions that differ in ports, protocol and source MAC
PortSessions ==
    [a1 : {Addr10a}, p1 : Ports, a2 : {Addr10b}, p2 : Ports, src : MACs, dst : {MacB}, proto : Protocols]

\* the keys of a mapping are distinct
DistinctKeys(ds) ==
    \A i, j \in DOMAIN ds :
        i # j => <<ds[i].a1, ds[i].p1, ds[i].a2, ds[i].p2>> # <<ds[j].a1, ds[j].p1, ds[j].a2, ds[j].p2>>

Mappings(S) ==
    {ds \in UNION {[1..n -> S] : n \in 0..MaxSessions} : DistinctKeys(ds)}

\* the items in ascending order of their ports: one iteration order per set
\* of keys (SpecAddr has every order)
PortOrdered(ds) ==
    \A i, j \in DOMAIN ds :
        i < j => (MaxPort + 1) * ds[i].p1 + ds[i].p2 < (MaxPort + 1) * ds[j].p1 + ds[j].p2

SourceArgs == {NoneValue, PyStr(MacA), PyStr(MacB)}

InitAddr ==
    /\ \E ds \in Mappings(AddrSessions) : session_dict = [k \in DOMAIN ds |-> Item(ds[k])]
    /\ capture_source \in SourceArgs
    /\ max_port = MaxPort
    /\ address = [kind |-> "none", q |-> [a |-> 0, b |-> 0, c |-> 0, d |-> 0], py |-> PyStr(<<>>)]
    /\ pc = "start"
    /\ ret = NoneValue
    /\ locals = InitLocals(0)

InitPort ==
    /\ \E ds \in Mappings(PortSessions) :
          /\ PortOrdered(ds)
          /\ session_dict = [k \in DOMAIN ds |-> Item(ds[k])]
    /\ capture_source \in {NoneValue, PyStr(MacA)}
    /\ max_port \in 0..MaxPort
    /\ address = [kind |-> "none", q |-> [a |-> 0, b |-> 0, c |-> 0, d |-> 0], py |-> PyStr(<<>>)]
    /\ pc = "start"
    /\ ret = NoneValue
    /\ locals = InitLocals(0)

CallGetSource ==
    /\ pc = "start"
    /\ pc' = "get_source"
    /\ ret' = get_source(session_dict)
    /\ UNCHANGED <<address, session_dict, capture_source, max_port, locals>>

CallExtractFeatures ==
    /\ pc = "start"
    /\ pc' = "extract_features"
    /\ locals' = extract_locals(session_dict, capture_source, max_port)
    /\ ret' = Returns(locals', session_dict, capture_source)
    /\ UNCHANGED <<address, session_dict, capture_source, max_port>>

NextAddr == CallGetSource \/ CallExtractFeatures

NextPort == CallExtractFeatures

SpecAddr == InitAddr /\ [][NextAddr]_vars

SpecPort == InitPort /\ [][NextPort]_vars

----------------------------------------------------------------------------
(* What the claims are stated on: the fields the inputs were built from *)

\* the RFC 1918 ranges, on the octets of an address
RFC1918(a, b) == a = 10 \/ (a = 172 /\ 16 <= b /\ b <= 31) \/ (a = 192 /\ b = 168)

Sessions == DOMAIN session_dict

Desc(i) == session_dict[i].d

\* the sessions whose source-side (destination-side) MAC is the MAC string cs
SourceSessions(cs) == {i \in Sessions : PyStr(Desc(i).src) = cs}
DestinationSessions(cs) == {i \in Sessions : PyStr(Desc(i).dst) = cs}

PrivateAddr(a) == RFC1918(a[1], a[2])

\* the sessions between two private addresses
PrivateSessions == {i \in Sessions : PrivateAddr(Desc(i).a1) /\ PrivateAddr(Desc(i).a2)}

\* how often a MAC occurs in the private sessions, as source plus as destination
Occurrences(m) ==
    Cardinality({i \in PrivateSessions : Desc(i).src = m})
    + Cardinality({i \in PrivateSessions : Desc(i).dst = m})

\* when a MAC is first met: the source MAC of session i at 2i, its destination MAC at 2i+1
Positions(m) ==
    {2 * i : i \in {j \in PrivateSessions : Desc(j).src = m}}
    \cup {2 * i + 1 : i \in {j \in PrivateSessions : Desc(j).dst = m}}

FirstSeen(m) == CHOOSE p \in Positions(m) : \A q \in Positions(m) : p <= q

RECURSIVE SumSeq(_)
SumSeq(q) == IF q = <<>> THEN 0 ELSE q[1] + SumSeq(Tail(q))

Prefix3(a) == SubSeq(AddrStr(a), 1, 3)

FeaturesDone == pc = "extract_features"

Resolved == ret.capture_source

----------------------------------------------------------------------------
(* C1 *)

\* C1: is_external is true exactly when the three-character prefixes of the
\* two addresses differ, so the external counter of extract_features is the
\* number of capture-source sessions whose endpoint addresses have different
\* three-character prefixes.
C1_ExternalCountsDifferentPrefixes ==
    FeaturesDone =>
        locals.num_external =
            Cardinality({i \in SourceSessions(Resolved) : Prefix3(Desc(i).a1) # Prefix3(Desc(i).a2)})

----------------------------------------------------------------------------
(* C2 *)

AllZero(vector) == \A k \in DOMAIN vector : vector[k].num = 0

\* C2: on an empty mapping with no capture source given, extract_features
\* returns an all-zero vector of length 2*max_port+4, the capture source
\* '00:00:00:00:00:00' and no peers; get_source on the empty mapping returns
\* that MAC string too.
C2_EmptyMappingYieldsSentinel ==
    /\ (FeaturesDone /\ session_dict = <<>> /\ capture_source = NoneValue) =>
            /\ Len(ret.feature_vector) = 2 * max_port + 4
            /\ AllZero(ret.feature_vector)
            /\ ret.capture_source = PyStr(ZeroMac)
            /\ ret.other_ips = <<>>
    /\ (pc = "get_source" /\ session_dict = <<>>) => ret = PyStr(ZeroMac)

----------------------------------------------------------------------------
(* C3 *)

\* C3: when some session has both addresses private, get_source returns a MAC
\* whose occurrence count over the private-to-private sessions (as source plus
\* as destination) is the maximum, and which is met before every other MAC
\* with that count (source MAC before destination MAC within a session).
C3_SourceIsFirstSeenMaximum ==
    (pc = "get_source" /\ PrivateSessions # {}) =>
        /\ ret.t = "str"
        /\ Occurrences(ret.v) > 0
        /\ \A m \in MACs :
              /\ Occurrences(m) <= Occurrences(ret.v)
              /\ (m # ret.v /\ Occurrences(m) = Occurrences(ret.v)) => FirstSeen(ret.v) < FirstSeen(m)

\* a tie that the order decides, in a mapping with a session that does not count
C3_Witness ==
    /\ pc = "get_source"
    /\ Sessions \ PrivateSessions # {}
    /\ ret = PyStr(MacB)
    /\ Occurrences(MacA) = Occurrences(MacB)
    /\ Occurrences(MacB) > 0
    /\ Desc(1).src = MacA

----------------------------------------------------------------------------
(* C4 *)

\* the addresses the loop records for session i alone
RecordedFor(i) ==
    Range(Aggregate(InitLocals(max_port), session_dict[i], Resolved, max_port).other_ips.keys)

\* C4: the peer list holds, once each, exactly the private other-side
\* addresses of the sessions that have the capture source's MAC on one side,
\* and the address on the capture source's own side of a session is never
\* recorded on account of that session.
C4_PeersAreOtherSideOnly ==
    FeaturesDone =>
        /\ Len(ret.other_ips) = Cardinality(Range(ret.other_ips))
        /\ Range(ret.other_ips) =
              {AddrStr(Desc(i).a2) : i \in {j \in SourceSessions(Resolved) : PrivateAddr(Desc(j).a2)}}
              \cup {AddrStr(Desc(i).a1) : i \in {j \in DestinationSessions(Resolved) : PrivateAddr(Desc(j).a1)}}
        /\ \A i \in SourceSessions(Resolved) : AddrStr(Desc(i).a1) \notin RecordedFor(i)
        /\ \A i \in DestinationSessions(Resolved) : AddrStr(Desc(i).a2) \notin RecordedFor(i)

----------------------------------------------------------------------------
(* C5 *)

\* C5: the source-port counts sum to the number of capture-source sessions
\* whose source port is below max_port, which is all of them when every source
\* port is below max_port; likewise the destination-port counts.
C5_HistogramSums ==
    FeaturesDone =>
        LET own == SourceSessions(Resolved)
        IN  /\ SumSeq(locals.num_source_sess) = Cardinality({i \in own : Desc(i).p1 < max_port})
            /\ SumSeq(locals.num_destination_sess) = Cardinality({i \in own : Desc(i).p2 < max_port})
            /\ (\A i \in own : Desc(i).p1 < max_port) => SumSeq(locals.num_source_sess) = Cardinality(own)
            /\ (\A i \in own : Desc(i).p2 < max_port) => SumSeq(locals.num_destination_sess) = Cardinality(own)

\* two capture-source sessions, one of them with a source port that has no bin
C5_Witness ==
    /\ FeaturesDone
    /\ Cardinality(SourceSessions(Resolved)) = 2
    /\ SumSeq(locals.num_source_sess) = 1
    /\ SumSeq(locals.num_destination_sess) = 2

----------------------------------------------------------------------------
(* C6 *)

\* C6: a capture-source session with a port at or above max_port bumps no bin
\* for that port, and is still counted in the session count and in the
\* external and protocol counters; every entry is divided by the number of all
\* capture-source sessions (1 when there is none).
C6_DroppedPortsStillCounted ==
    FeaturesDone =>
        LET own == SourceSessions(Resolved)
        IN  /\ locals.num_sessions = Cardinality(own)
            /\ locals.num_external =
                  Cardinality({i \in own : is_external(AddrStr(Desc(i).a1), AddrStr(Desc(i).a2))})
            /\ locals.num_tcp_sess = Cardinality({i \in own : Desc(i).proto = TCP})
            /\ locals.num_udp_sess = Cardinality({i \in own : Desc(i).proto = UDP})
            /\ locals.num_icmp_sess = Cardinality({i \in own : Desc(i).proto = ICMP})
            /\ Len(locals.num_source_sess) = max_port
            /\ Len(locals.num_destination_sess) = max_port
            /\ \A p \in 0..(max_port - 1) :
                  /\ locals.num_source_sess[p + 1] = Cardinality({i \in own : Desc(i).p1 = p})
                  /\ locals.num_destination_sess[p + 1] = Cardinality({i \in own : Desc(i).p2 = p})
            /\ \A k \in DOMAIN ret.feature_vector :
                  ret.feature_vector[k].den = (IF own = {} THEN 1 ELSE Cardinality(own))

\* a UDP session of the capture source whose ports have no bin, beside one whose ports have
C6_Witness ==
    /\ FeaturesDone
    /\ \E i \in SourceSessions(Resolved) :
          /\ Desc(i).p1 >= max_port
          /\ Desc(i).p2 >= max_port
          /\ Desc(i).proto = UDP
    /\ locals.num_udp_sess = 1
    /\ locals.num_sessions = 2
    /\ SumSeq(locals.num_source_sess) = 1

----------------------------------------------------------------------------
(* C9 *)

----------------------------------------------------------------------------
(* C10 *)

\* C10: every counter that is divided is at most the divisor, the sums of the
\* port counts and the three protocol counts together are at most the number
\* of capture-source sessions, so every entry is between 0 and 1; with no
\* capture-source session the divisor is 1 and every entry is 0.
C10_EntriesBetweenZeroAndOne ==
    FeaturesDone =>
        LET n == Cardinality(SourceSessions(Resolved))
            v == ret.feature_vector
        IN  /\ \A k \in DOMAIN v : 0 <= v[k].num /\ v[k].num <= v[k].den /\ v[k].den >= 1
            /\ \A k \in DOMAIN v : n > 0 => v[k].den = n
            /\ SumSeq(locals.num_source_sess) <= n
            /\ SumSeq(locals.num_destination_sess) <= n
            /\ locals.num_external <= n
            /\ locals.num_tcp_sess + locals.num_udp_sess + locals.num_icmp_sess <= n
            /\ n = 0 => \A k \in DOMAIN v : v[k] = Quot(0, 1)

\* no session of the capture source in a mapping that has sessions
C10_Witness ==
    /\ FeaturesDone
    /\ session_dict # <<>>
    /\ SourceSessions(Resolved) = {}
    /\ max_port > 0
    /\ ret.feature_vector[1] = Quot(0, 1)

----------------------------------------------------------------------------
(* C7, C8 *)

IsPrivateDone == pc = "is_private"

\* C7: on a dotted quad a.b.c.d, given as a string or as the list of its four
\* octet strings, is_private returns true exactly when a = 10, or a = 172 and
\* 16 <= b <= 31, or a = 192 and b = 168.
C7_IsPrivateMatchesRFC1918 ==
    (IsPrivateDone /\ address.kind = "quad") =>
        ret = Returned(RFC1918(address.q.a, address.q.b))

\* the upper end of 172.16.0.0/12, as a list of octets
C7_Witness ==
    /\ IsPrivateDone
    /\ address.kind = "quad"
    /\ address.py.t = "list"
    /\ address.q.a = 172
    /\ address.q.b = 31
    /\ ret = Returned(TRUE)

\* C8: is_private never raises: on an input that is not a well-formed
\* four-octet address it returns false.
C8_MalformedIsNotPrivate ==
    (IsPrivateDone /\ address.kind = "malformed") => ret = Returned(FALSE)

====
